---- MODULE Spec2Model ----
(***************************************************************************)
(* Transport/session management of template_project/microtvm_api_server.py *)
(* (class Handler): open_transport, close_transport, _await_ready,         *)
(* read_transport, write_transport, and the atexit fallback.               *)
(*                                                                         *)
(* One caller drives the Handler.  A handler runs as one action, except    *)
(* that read_transport and write_transport stop where the code blocks, in  *)
(* the select of _await_ready.  The statements of close_transport are      *)
(* functions on a record m of what they read and write; close_run chains   *)
(* them in the order of the source.  The operating system (child process,  *)
(* its process group, the two pipes, the monotonic clock) is the           *)
(* environment and moves between the actions.                              *)
(***************************************************************************)
EXTENDS Integers, Sequences, FiniteSets, TLC

\* ---- bounds -------------------------------------------------------------
MaxOpens   == 2   \* children spawned over one run
MaxLen     == 2   \* length of the data given to write_transport
MaxOut     == 2   \* bytes pending in the child's stdout pipe
MaxN       == 2   \* n given to read_transport
MaxByte    == 1   \* byte values are 0..MaxByte
MaxTimeout == 1   \* largest finite timeout_sec
PipeCap    == 1   \* bytes the child's stdin pipe holds

\* ---- encodings of Python's None ------------------------------------------
DBG        == FALSE   \* line 42
NoProc     == 0       \* self._proc = None
NoDeadline == 0 - 1   \* end_time = None

Pids     == 1..MaxOpens
Timeouts == {NoDeadline} \cup (0..MaxTimeout)

Min(a, b) == IF a < b THEN a ELSE b
Max(a, b) == IF a > b THEN a ELSE b

\* the byte that follows b in the streams of the model: neighbouring bytes
\* differ, so that a dropped, repeated or swapped byte shows
NextByte(b) == (b + 1) % (MaxByte + 1)

\* the data given to write_transport: one sequence of every length up to MaxLen
Datas == {[i \in 1..k |-> (i - 1) % (MaxByte + 1)] : k \in 0..MaxLen}

\* data[k:] of Python, k counted from 0
Slice(s, k) == SubSeq(s, k + 1, Len(s))

VARIABLES
    proc,       \* self._proc: NoProc or the pid of the Popen object
    dbg,        \* module constant DBG
    nspawn,     \* children spawned so far; the newest child has pid nspawn
    child,      \* the newest child: "none" | "running" | "zombie" (exited) | "reaped"
    orphans,    \* earlier children that still run; no Popen object refers to them
    desc,       \* a descendant of the newest child lives in the child's process
                \* group and holds the child's ends of the pipes
    outbuf,     \* bytes the newest child wrote to its stdout, not yet read by the host
    outNext,    \* the byte the peer writes next
    outOpen,    \* some process still holds the write end of the stdout pipe
    inOpen,     \* some process still holds the read end of the stdin pipe
    inFree,     \* free bytes in the stdin pipe
    atexitN,    \* callbacks registered with atexit.register
    hostExited, \* the host process has run its exit callbacks and is gone
    now,        \* time.monotonic(), counted from the start of the running call
    tceSeen,    \* history: "no", or how TransportClosedError was first raised since
                \* the latest open_transport call ("check": lines 407/430, "peer":
                \* line 420)
    call,       \* the running or the last call: program counter, locals, outcome
    th          \* two callers that share the Handler and run their calls
                \* statement by statement (SpecRace); idle elsewhere

pipes == <<outbuf, outNext, outOpen, inOpen, inFree>>

vars == <<proc, dbg, nspawn, child, orphans, desc, outbuf, outNext, outOpen, inOpen, inFree,
          atexitN, hostExited, now, tceSeen, call, th>>

NoCall ==
    [pc |-> "idle", op |-> "none", etiss_script |-> FALSE, n |-> 0, data |-> <<>>,
     data0 |-> <<>>,
     sent |-> <<>>, end_time |-> NoDeadline, timeout_sec |-> NoDeadline, t0 |-> 0,
     to_return |-> <<>>, result |-> "none", log |-> <<>>]

Threads == 1..2

\* a caller that has not called: program counter, the locals proc, pgrp, fd
\* and data, the outcome, and what its steps did that the properties ask
\* about (signals that reached a running child, use of the cleared handle,
\* I/O on the pipes of a session whose handle was cleared)
NoThread ==
    [op |-> "none", pc |-> "idle", lproc |-> NoProc, pgrp |-> 0, fd |-> FALSE,
     data |-> <<>>, result |-> "none", sig |-> 0, deref |-> FALSE, stale |-> FALSE]

\* Handler.__init__ : _proc = None
Init ==
    /\ proc = NoProc
    /\ dbg = DBG
    /\ nspawn = 0
    /\ child = "none"
    /\ orphans = 0
    /\ desc = FALSE
    /\ outbuf = <<>>
    /\ outNext = 0
    /\ outOpen = FALSE
    /\ inOpen = FALSE
    /\ inFree = 0
    /\ atexitN = 0
    /\ hostExited = FALSE
    /\ now = 0
    /\ tceSeen = "no"
    /\ call = NoCall
    /\ th = [t \in Threads |-> NoThread]

\* the Handler of a build with line 42 set to True (line 43)
InitDbg ==
    /\ proc = NoProc
    /\ dbg = TRUE
    /\ nspawn = 0
    /\ child = "none"
    /\ orphans = 0
    /\ desc = FALSE
    /\ outbuf = <<>>
    /\ outNext = 0
    /\ outOpen = FALSE
    /\ inOpen = FALSE
    /\ inFree = 0
    /\ atexitN = 0
    /\ hostExited = FALSE
    /\ now = 0
    /\ tceSeen = "no"
    /\ call = NoCall
    /\ th = [t \in Threads |-> NoThread]

\* ---- helpers on the call record --------------------------------------------
Begin(o) == [NoCall EXCEPT !.op = o]

\* the handler returns or raises: res is "ok" or the exception's name
Finish(r, res) ==
    [r EXCEPT !.pc = "idle", !.result = res, !.end_time = NoDeadline,
              !.timeout_sec = NoDeadline, !.t0 = 0]

CanCall == ~hostExited /\ call.pc = "idle"

\* ---- close_transport, statement by statement --------------------------------
\* m = [proc: self._proc, child, desc, lproc: the local proc, pgrp, log,
\*      err: "none" or the exception under way]
Machine(log) ==
    [proc |-> proc, child |-> child, desc |-> desc, lproc |-> NoProc, pgrp |-> 0,
     log |-> log, err |-> "none"]

Step(m, e) == [m EXCEPT !.log = Append(m.log, e)]

Raise(m, e, x) == [m EXCEPT !.log = Append(m.log, e), !.err = x]

\* lines 381-384: the DBG dump of self.outputs
close_dump(m) == IF dbg THEN Step(m, "flush") ELSE m

\* the process group of the host, no pid of a child
HostPgrp == MaxOpens + 1

\* a child started without line 363 stays in the group of the host
PgidInherited(pid) == HostPgrp

\* the child was started with preexec_fn=os.setsid (line 363): it leads a new
\* session and a new process group, whose id is its pid
Pgid(pid) == pid

\* lines 386-387: proc = self._proc; pgrp = os.getpgid(proc.pid).
\* A reaped pid no longer exists.  self._proc is the newest child whenever it
\* is set (line 358).
close_getpgid(m) ==
    IF m.err # "none" THEN m
    ELSE IF m.proc = NoProc THEN Raise(m, "getpgid", "AttributeError")
    ELSE IF m.child = "reaped" THEN Raise(m, "getpgid", "ProcessLookupError")
    ELSE [Step(m, "getpgid") EXCEPT !.lproc = m.proc, !.pgrp = Pgid(m.proc)]

\* close_transport without line 388
close_clear_forgotten(m) == m

\* line 388: self._proc = None
close_clear(m) ==
    IF m.err # "none" THEN m
    ELSE [Step(m, "clear") EXCEPT !.proc = NoProc]

\* Popen.poll() as run at the head of send_signal: reaps an exited child
Polled(st) == IF st = "zombie" THEN "reaped" ELSE st

\* line 389: proc.terminate(); SIGTERM may be handled or ignored by the child,
\* whose exit is the environment's ChildExit
close_terminate(m) ==
    IF m.err # "none" THEN m
    ELSE [Step(m, "terminate") EXCEPT !.child = Polled(m.child)]

\* line 390: proc.kill(); SIGKILL ends a child that still runs
close_kill(m) ==
    IF m.err # "none" THEN m
    ELSE [Step(m, "kill") EXCEPT !.child =
             IF Polled(m.child) = "running" THEN "zombie" ELSE Polled(m.child)]

\* line 391: proc.wait() returns once the child has exited, and reaps it
close_wait(m) ==
    IF m.err # "none" THEN m
    ELSE [Step(m, "wait") EXCEPT !.child = Polled(m.child)]

\* the child's process group has a member: its leader, until reaped, or a
\* descendant
GroupExists(m) == m.child \in {"running", "zombie"} \/ m.desc

\* a close_transport that puts the handle back when the group cannot be
\* signalled
close_killpg_restores(m) ==
    IF m.err # "none" THEN m
    ELSE IF m.pgrp = HostPgrp THEN Step(m, "killpg_host")
    ELSE IF GroupExists(m)
    THEN [Step(m, "killpg") EXCEPT !.desc = FALSE]
    ELSE [Raise(m, "killpg", "ProcessLookupError") EXCEPT !.proc = m.lproc]

\* line 392: os.killpg(pgrp, SIGKILL); ESRCH when the group has no member
close_killpg(m) ==
    IF m.err # "none" THEN m
    ELSE IF m.pgrp = HostPgrp THEN Step(m, "killpg_host")
    ELSE IF GroupExists(m)
    THEN [Step(m, "killpg") EXCEPT !.desc = FALSE]
    ELSE Raise(m, "killpg", "ProcessLookupError")

\* close_transport always entering the body of the if of line 385
close_run_untested(m) ==
    close_killpg(close_wait(close_kill(close_terminate(close_clear(
        close_getpgid(close_dump(m)))))))

\* lines 379-392
close_run(m) ==
    LET d == close_dump(m)
    IN  IF d.proc # NoProc
        THEN close_killpg(close_wait(close_kill(close_terminate(close_clear(
                 close_getpgid(d))))))
        ELSE d

\* what a run of close_transport leaves of the session's pipes: once the
\* handle is cleared the frame's local proc is the last reference to the Popen
\* object, and when the frame is left the host's ends of the pipes are closed
PipesAfter(m) ==
    IF m.proc # proc
    THEN /\ outbuf' = <<>>
         /\ outNext' = 0
         /\ outOpen' = FALSE
         /\ inOpen' = FALSE
         /\ inFree' = 0
    ELSE UNCHANGED pipes

\* ---- open_transport --------------------------------------------------------
\* lines 337-377.  The assert on etiss_script; self._proc = Popen(...), which
\* may fail; _set_nonblock (lines 331-335) on stdin and on stdout, where fcntl
\* or the assert may fail; atexit.register.  The new Popen object replaces the
\* one self._proc held: that one's pipes are closed, and its child is out of
\* the Handler's reach: if it still runs it is an orphan.  Copied: lines
\* 346-347, the copy of the ELF file in a DBG build.
Copied == IF dbg THEN <<"copyfile">> ELSE <<>>

\* the call record of open_transport(options); etiss_script: options has the key
Open(etiss_script) == [Begin("open") EXCEPT !.etiss_script = etiss_script]

\* open_transport with the assert of line 345 put after the launch
open_transport_asserts_late ==
    /\ CanCall
    /\ nspawn < MaxOpens
    /\ \E etiss_script \in BOOLEAN :
         /\ call' = Finish([Open(etiss_script) EXCEPT !.log = Copied \o <<"Popen">>],
                           IF etiss_script THEN "ok" ELSE "AssertionError")
         /\ atexitN' = IF etiss_script THEN atexitN + 1 ELSE atexitN
    /\ nspawn' = nspawn + 1
    /\ child' = "running"
    /\ proc' = nspawn + 1
    /\ orphans' = IF child = "running" THEN orphans + 1 ELSE orphans
    /\ desc' = FALSE
    /\ outbuf' = <<>>
    /\ outNext' = 0
    /\ outOpen' = TRUE
    /\ inOpen' = TRUE
    /\ inFree' = PipeCap
    /\ tceSeen' = "no"
    /\ UNCHANGED <<dbg, hostExited, now, th>>

open_transport ==
    /\ CanCall
    /\ nspawn < MaxOpens
    /\ \E etiss_script \in BOOLEAN, spawned \in BOOLEAN,
          nb_stdin \in BOOLEAN, nb_stdout \in BOOLEAN :
         IF ~etiss_script \/ ~spawned
         THEN /\ call' = Finish(Open(etiss_script),
                                IF ~etiss_script THEN "AssertionError" ELSE "OSError")
              /\ UNCHANGED <<proc, nspawn, child, orphans, desc, pipes, atexitN>>
         ELSE /\ nspawn' = nspawn + 1
              /\ child' = "running"
              /\ orphans' = IF child = "running" THEN orphans + 1 ELSE orphans
              /\ proc' = nspawn + 1
              /\ desc' = FALSE
              /\ outbuf' = <<>>
              /\ outNext' = 0
              /\ outOpen' = TRUE
              /\ inOpen' = TRUE
              /\ inFree' = PipeCap
              /\ IF ~nb_stdin
                 THEN /\ call' = Finish([Open(TRUE) EXCEPT
                                            !.log = Copied \o <<"Popen">>],
                                        "AssertionError")
                      /\ UNCHANGED atexitN
                 ELSE IF ~nb_stdout
                 THEN /\ call' = Finish([Open(TRUE) EXCEPT
                                            !.log = Copied \o <<"Popen", "set_nonblock">>],
                                        "AssertionError")
                      /\ UNCHANGED atexitN
                 ELSE /\ call' = Finish([Open(TRUE) EXCEPT !.log = Copied \o
                                  <<"Popen", "set_nonblock", "set_nonblock", "atexit">>],
                                        "ok")
                      /\ atexitN' = atexitN + 1
    /\ tceSeen' = "no"
    /\ UNCHANGED <<dbg, hostExited, now>>
    /\ UNCHANGED th

\* ---- close_transport -------------------------------------------------------
close_transport ==
    /\ CanCall
    /\ LET m == close_run(Machine(<<>>))
       IN  /\ proc' = m.proc
           /\ child' = m.child
           /\ desc' = m.desc
           /\ PipesAfter(m)
           /\ call' = Finish([Begin("close") EXCEPT !.log = m.log],
                             IF m.err = "none" THEN "ok" ELSE m.err)
    /\ UNCHANGED <<dbg, nspawn, orphans, atexitN, hostExited, now, tceSeen>>
    /\ UNCHANGED th

\* ---- normal exit of the host process ----------------------------------------
\* each registered lambda calls self.close_transport() (line 372); the exit
\* machinery prints and drops an exception of a callback
RECURSIVE RunCallbacks(_, _)
RunCallbacks(m, k) ==
    IF k = 0 THEN m
    ELSE RunCallbacks(close_run([m EXCEPT !.err = "none", !.lproc = NoProc, !.pgrp = 0]),
                      k - 1)

host_exit ==
    /\ CanCall
    /\ LET m == RunCallbacks(Machine(<<>>), atexitN)
       IN  /\ proc' = m.proc
           /\ child' = m.child
           /\ desc' = m.desc
           /\ PipesAfter(m)
           /\ call' = Finish([Begin("exit") EXCEPT !.log = m.log], "ok")
    /\ hostExited' = TRUE
    /\ UNCHANGED <<dbg, nspawn, orphans, atexitN, now, tceSeen>>
    /\ UNCHANGED th

\* ---- _await_ready ----------------------------------------------------------
\* the budget that counts from the start of the clock, not from now
BudgetFromZero(end_time) == end_time

\* lines 395-396: timeout_sec = max(0, end_time - time.monotonic()), or None
Budget(end_time) ==
    IF end_time = NoDeadline THEN NoDeadline ELSE Max(0, end_time - now)

\* the call r enters _await_ready, and select at line 398, at the time t0
Enter(r, pc) == [r EXCEPT !.pc = pc, !.timeout_sec = Budget(r.end_time), !.t0 = now]

\* select giving up at once when nothing is ready
await_ready_impatient(ready, r) ==
    IF ready THEN "ready"
    ELSE IF r.timeout_sec # NoDeadline THEN "IoTimeoutError"
    ELSE "block"

\* lines 398-402: select returns what is ready, or nothing once timeout_sec
\* has passed since it was entered, and an empty answer raises IoTimeoutError.
\* "block" = select is still waiting.
await_ready(ready, r) ==
    IF ready THEN "ready"
    ELSE IF r.timeout_sec # NoDeadline /\ now - r.t0 >= r.timeout_sec THEN "IoTimeoutError"
    ELSE "block"

\* select on the read end of the stdout pipe: data pending or end of file
Readable == outbuf # <<>> \/ ~outOpen

\* select on the write end of the stdin pipe: room, or the reader is gone
Writable == inFree > 0 \/ ~inOpen

\* lines 410 and 433
Deadline(timeout_sec) == IF timeout_sec = NoDeadline THEN NoDeadline ELSE now + timeout_sec

\* the origin of time.monotonic() is arbitrary: the clock of the model is set
\* back to 0 when a call ends
Clock(c) == IF c.pc = "idle" THEN 0 ELSE now

\* ---- read_transport ---------------------------------------------------------
\* os.read(fd, n): at most n bytes from the front of what is pending
os_read(buf, n) == SubSeq(buf, 1, Min(n, Len(buf)))

\* lines 404-410: the test of self._proc, then fd and end_time
read_transport ==
    /\ CanCall
    /\ \E n \in 1..MaxN, timeout_sec \in Timeouts :
         call' = IF proc = NoProc
                 THEN Finish([Begin("read") EXCEPT !.n = n], "TransportClosedError")
                 ELSE Enter([Begin("read") EXCEPT !.n = n,
                                                  !.end_time = Deadline(timeout_sec),
                                                  !.log = <<"deadline">>],
                            "read_await")
    /\ tceSeen' = IF proc = NoProc /\ tceSeen = "no" THEN "check" ELSE tceSeen
    /\ UNCHANGED <<proc, dbg, nspawn, child, orphans, desc, pipes, atexitN, hostExited,
                   now>>
    /\ UNCHANGED th

\* read_transport without the call of line 419
read_teardown_skipped(m) == m

\* line 419: self.close_transport()
read_teardown(m) == close_run(m)

\* lines 422-423: self.outputs += to_return in a DBG build
Captured == IF dbg THEN <<"capture">> ELSE <<>>

\* read_transport going back to _await_ready until n bytes are gathered
read_transport_os_gathers ==
    /\ ~hostExited
    /\ call.pc = "read_await"
    /\ await_ready(Readable, call) = "ready"
    /\ outbuf # <<>>
    /\ LET got == os_read(outbuf, call.n - Len(call.to_return))
           r == [call EXCEPT !.log = @ \o <<"await", "read">>,
                             !.to_return = @ \o got]
       IN  /\ call' = IF Len(r.to_return) = r.n THEN Finish(r, "ok") ELSE r
           /\ outbuf' = Slice(outbuf, Len(got))
    /\ now' = Clock(call')
    /\ UNCHANGED <<proc, dbg, nspawn, child, orphans, desc, outNext, outOpen, inOpen,
                   inFree, atexitN, hostExited, tceSeen>>
    /\ UNCHANGED th

\* lines 412-425: _await_ready, os.read, and the handling of an empty read
read_transport_os ==
    /\ ~hostExited
    /\ call.pc = "read_await"
    /\ LET a == await_ready(Readable, call)
           r == [call EXCEPT !.log = Append(@, "await")]
       IN  /\ a # "block"
           /\ IF a = "IoTimeoutError"
              THEN /\ call' = Finish(r, a)
                   /\ UNCHANGED <<proc, child, desc, pipes, tceSeen>>
              ELSE IF outbuf # <<>>
              THEN /\ call' = Finish([r EXCEPT !.log = @ \o <<"read">> \o Captured,
                                               !.to_return = os_read(outbuf, r.n)], "ok")
                   /\ outbuf' = Slice(outbuf, Len(os_read(outbuf, r.n)))
                   /\ UNCHANGED <<proc, child, desc, outNext, outOpen, inOpen, inFree,
                                  tceSeen>>
              ELSE \E e \in {"read_eof", "BrokenPipeError"} :
                     LET m == read_teardown(Machine(Append(r.log, e)))
                     IN  /\ proc' = m.proc
                         /\ child' = m.child
                         /\ desc' = m.desc
                         /\ PipesAfter(m)
                         /\ call' = Finish([r EXCEPT !.log = m.log],
                                           IF m.err = "none" THEN "TransportClosedError"
                                           ELSE m.err)
                         /\ tceSeen' = IF m.err = "none" THEN "peer" ELSE tceSeen
    /\ now' = 0
    /\ UNCHANGED <<dbg, nspawn, orphans, atexitN, hostExited>>
    /\ UNCHANGED th

\* ---- write_transport --------------------------------------------------------
\* the remainder taken one byte too far
UnsentSkipsOne(data, num_written) == Slice(data, num_written + 1)

\* line 447: data = data[num_written:]
Unsent(data, num_written) == Slice(data, num_written)

\* a loop that tests data after the turn, not before it
WriteLoopTestsLate(r) ==
    IF r.data = <<>> /\ r.sent # <<>> THEN Finish(r, "ok") ELSE Enter(r, "write_await")

\* line 436: while data
WriteLoop(r) == IF r.data = <<>> THEN Finish(r, "ok") ELSE Enter(r, "write_await")

\* write_transport without the test of lines 429-430
write_transport_untested ==
    /\ CanCall
    /\ \E data \in Datas, timeout_sec \in Timeouts :
         call' = WriteLoop([Begin("write") EXCEPT !.data = data, !.data0 = data,
                                                  !.end_time = Deadline(timeout_sec),
                                                  !.log = <<"deadline">>])
    /\ UNCHANGED <<proc, dbg, nspawn, child, orphans, desc, pipes, atexitN, hostExited,
                   now, tceSeen>>
    /\ UNCHANGED th

\* lines 427-436
write_transport ==
    /\ CanCall
    /\ \E data \in Datas, timeout_sec \in Timeouts :
         call' = IF proc = NoProc
                 THEN Finish([Begin("write") EXCEPT !.data = data, !.data0 = data],
                             "TransportClosedError")
                 ELSE WriteLoop([Begin("write") EXCEPT !.data = data, !.data0 = data,
                                                       !.end_time = Deadline(timeout_sec),
                                                       !.log = <<"deadline">>])
    /\ tceSeen' = IF proc = NoProc /\ tceSeen = "no" THEN "check" ELSE tceSeen
    /\ UNCHANGED <<proc, dbg, nspawn, child, orphans, desc, pipes, atexitN, hostExited,
                   now>>
    /\ UNCHANGED th

\* write_transport treating a timeout as a closed peer
write_transport_os_drops ==
    /\ ~hostExited
    /\ call.pc = "write_await"
    /\ LET a == await_ready(Writable, call)
           r == [call EXCEPT !.log = Append(@, "await")]
           m == close_run(Machine(r.log))
       IN  /\ a # "block"
           /\ IF a = "IoTimeoutError"
              THEN /\ call' = Finish([r EXCEPT !.log = m.log], a)
                   /\ proc' = m.proc
                   /\ child' = m.child
                   /\ desc' = m.desc
                   /\ PipesAfter(m)
              ELSE /\ inOpen
                   /\ call' = WriteLoop([r EXCEPT
                                !.log = Append(@, "write"),
                                !.sent = @ \o SubSeq(r.data, 1, Min(Len(r.data), inFree)),
                                !.data = Unsent(r.data, Min(Len(r.data), inFree))])
                   /\ inFree' = inFree - Min(Len(r.data), inFree)
                   /\ UNCHANGED <<proc, child, desc, outbuf, outNext, outOpen, inOpen>>
    /\ now' = Clock(call')
    /\ UNCHANGED <<dbg, nspawn, orphans, atexitN, hostExited, tceSeen>>
    /\ UNCHANGED th

\* lines 437-447, one turn of the loop: _await_ready; os.write takes what the
\* pipe has room for, or raises BrokenPipeError when no reader is left, and
\* then line 444 calls self.disconnect_transport(), a method Handler does not
\* have
write_transport_os ==
    /\ ~hostExited
    /\ call.pc = "write_await"
    /\ LET a == await_ready(Writable, call)
           r == [call EXCEPT !.log = Append(@, "await")]
       IN  /\ a # "block"
           /\ IF a = "IoTimeoutError"
              THEN /\ call' = Finish(r, a)
                   /\ UNCHANGED inFree
              ELSE IF ~inOpen
              THEN /\ call' = Finish([r EXCEPT !.log = @ \o <<"BrokenPipeError",
                                                             "disconnect_transport">>],
                                     "AttributeError")
                   /\ UNCHANGED inFree
              ELSE LET num_written == Min(Len(r.data), inFree)
                   IN  /\ call' = WriteLoop([r EXCEPT
                                    !.log = Append(@, "write"),
                                    !.sent = @ \o SubSeq(r.data, 1, num_written),
                                    !.data = Unsent(r.data, num_written)])
                       /\ inFree' = inFree - num_written
    /\ now' = Clock(call')
    /\ UNCHANGED <<proc, dbg, nspawn, child, orphans, desc, outbuf, outNext, outOpen,
                   inOpen, atexitN, hostExited, tceSeen>>
    /\ UNCHANGED th

\* ---- the environment --------------------------------------------------------
\* the last process holding the child's ends of the pipes is gone: end of file
\* on stdout, and the stdin pipe loses its reader and its content
PipesClose == outOpen' = FALSE /\ inOpen' = FALSE /\ inFree' = 0

\* the child (the ETISS run started by lines 358-364) ends on its own or on a
\* signal; its ends of the pipes stay open while a descendant holds them
ChildExit ==
    /\ ~hostExited
    /\ child = "running"
    /\ child' = "zombie"
    /\ IF desc THEN UNCHANGED <<outOpen, inOpen, inFree>> ELSE PipesClose
    /\ UNCHANGED <<proc, dbg, nspawn, orphans, desc, outbuf, outNext, atexitN,
                   hostExited, now, tceSeen, call>>
    /\ UNCHANGED th

\* an earlier child ends on its own
OrphanExit ==
    /\ ~hostExited
    /\ orphans > 0
    /\ orphans' = orphans - 1
    /\ UNCHANGED <<proc, dbg, nspawn, child, desc, pipes, atexitN, hostExited, now,
                   tceSeen, call>>
    /\ UNCHANGED th

\* the newest child starts a process of its own (the script run by line 358
\* starts the simulator), which inherits the group and the pipes
ChildFork ==
    /\ ~hostExited
    /\ child = "running"
    /\ ~desc
    /\ desc' = TRUE
    /\ UNCHANGED <<proc, dbg, nspawn, child, orphans, pipes, atexitN, hostExited, now,
                   tceSeen, call>>
    /\ UNCHANGED th

DescendantExit ==
    /\ ~hostExited
    /\ desc
    /\ desc' = FALSE
    /\ IF child = "running" THEN UNCHANGED <<outOpen, inOpen, inFree>> ELSE PipesClose
    /\ UNCHANGED <<proc, dbg, nspawn, child, orphans, outbuf, outNext, atexitN,
                   hostExited, now, tceSeen, call>>
    /\ UNCHANGED th

\* the child side writes a byte to stdout
PeerWrite ==
    /\ ~hostExited
    /\ outOpen
    /\ Len(outbuf) < MaxOut
    /\ outbuf' = Append(outbuf, outNext)
    /\ outNext' = NextByte(outNext)
    /\ UNCHANGED <<proc, dbg, nspawn, child, orphans, desc, outOpen, inOpen, inFree,
                   atexitN, hostExited, now, tceSeen, call>>
    /\ UNCHANGED th

\* the child side closes its stdout, or its stdin, while it runs on
PeerCloseStdout ==
    /\ ~hostExited
    /\ outOpen
    /\ outOpen' = FALSE
    /\ UNCHANGED <<proc, dbg, nspawn, child, orphans, desc, outbuf, outNext, inOpen,
                   inFree, atexitN, hostExited, now, tceSeen, call>>
    /\ UNCHANGED th

PeerCloseStdin ==
    /\ ~hostExited
    /\ inOpen
    /\ inOpen' = FALSE
    /\ inFree' = 0
    /\ UNCHANGED <<proc, dbg, nspawn, child, orphans, desc, outbuf, outNext, outOpen,
                   atexitN, hostExited, now, tceSeen, call>>
    /\ UNCHANGED th

\* the child side reads a byte from its stdin
PeerRead ==
    /\ ~hostExited
    /\ inOpen
    /\ inFree < PipeCap
    /\ inFree' = inFree + 1
    /\ UNCHANGED <<proc, dbg, nspawn, child, orphans, desc, outbuf, outNext, outOpen,
                   inOpen, atexitN, hostExited, now, tceSeen, call>>
    /\ UNCHANGED th

\* time.monotonic() advances; it matters while a call waits in a select that
\* has a timeout
Tick ==
    /\ ~hostExited
    /\ call.pc # "idle"
    /\ call.timeout_sec # NoDeadline
    /\ now - call.t0 < call.timeout_sec
    /\ now' = now + 1
    /\ UNCHANGED <<proc, dbg, nspawn, child, orphans, desc, pipes, atexitN, hostExited,
                   tceSeen, call>>
    /\ UNCHANGED th

Next ==
    \/ open_transport
    \/ close_transport
    \/ host_exit
    \/ read_transport
    \/ read_transport_os
    \/ write_transport
    \/ write_transport_os
    \/ ChildExit
    \/ OrphanExit
    \/ ChildFork
    \/ DescendantExit
    \/ PeerWrite
    \/ PeerCloseStdout
    \/ PeerCloseStdin
    \/ PeerRead
    \/ Tick

Spec == Init /\ [][Next]_vars

\* the same Handler built with DBG = True
SpecDbg == InitDbg /\ [][Next]_vars

\* a Handler that is written to and never read from: all of Next but
\* read_transport and the child's output
NextWrite ==
    \/ open_transport
    \/ close_transport
    \/ host_exit
    \/ write_transport
    \/ write_transport_os
    \/ ChildExit
    \/ OrphanExit
    \/ ChildFork
    \/ DescendantExit
    \/ PeerCloseStdin
    \/ PeerRead
    \/ Tick

\* time passes and the caller's thread is scheduled: the monotonic clock
\* advances under a select that has a timeout (line 398), and write_transport
\* runs on as soon as select has returned
SpecWrite ==
    Init /\ [][NextWrite]_vars /\ WF_vars(Tick) /\ WF_vars(write_transport_os)

Results == {"none", "ok", "AssertionError", "OSError", "AttributeError",
            "ProcessLookupError", "IoTimeoutError", "TransportClosedError"}

TypeOK ==
    /\ proc \in {NoProc} \cup Pids
    /\ dbg \in BOOLEAN
    /\ nspawn \in 0..MaxOpens
    /\ child \in {"none", "running", "zombie", "reaped"}
    /\ orphans \in 0..MaxOpens
    /\ desc \in BOOLEAN
    /\ outbuf \in Seq(0..MaxByte) /\ Len(outbuf) <= MaxOut
    /\ outNext \in 0..MaxByte
    /\ outOpen \in BOOLEAN
    /\ inOpen \in BOOLEAN
    /\ inFree \in 0..PipeCap
    /\ atexitN \in 0..MaxOpens
    /\ hostExited \in BOOLEAN
    /\ now \in 0..MaxTimeout
    /\ tceSeen \in {"no", "check", "peer"}
    /\ call.pc \in {"idle", "read_await", "write_await"}
    /\ call.op \in {"none", "open", "close", "exit", "read", "write"}
    /\ call.result \in Results
    /\ call.n \in 0..MaxN
    /\ call.data0 \in Datas \/ call.data0 = <<>>
    /\ call.end_time \in {NoDeadline} \cup (0..MaxTimeout)
    /\ call.timeout_sec \in {NoDeadline} \cup (0..MaxTimeout)
    /\ call.t0 \in 0..MaxTimeout
    /\ \A t \in Threads : th[t].lproc \in {NoProc} \cup Pids /\ th[t].sig \in 0..2

\* ---- two callers, statement by statement -----------------------------------
\* the session after a successful open_transport
InitRace ==
    /\ proc = 1
    /\ dbg = DBG
    /\ nspawn = 1
    /\ child = "running"
    /\ orphans = 0
    /\ desc = FALSE
    /\ outbuf = <<>>
    /\ outNext = 0
    /\ outOpen = TRUE
    /\ inOpen = TRUE
    /\ inFree = PipeCap
    /\ atexitN = 1
    /\ hostExited = FALSE
    /\ now = 0
    /\ tceSeen = "no"
    /\ call = Finish([Open(TRUE) EXCEPT !.log =
                        <<"Popen", "set_nonblock", "set_nonblock", "atexit">>], "ok")
    /\ th = [t \in Threads |-> NoThread]

Other(t) == 3 - t

RaceFrame == UNCHANGED <<dbg, nspawn, orphans, atexitN, hostExited, now, tceSeen, call>>

\* what the statements of close_transport read, for the caller t
RaceMachine(t) ==
    [proc |-> proc, child |-> child, desc |-> desc, lproc |-> th[t].lproc,
     pgrp |-> th[t].pgrp, log |-> <<>>, err |-> "none"]

\* the caller t goes from one statement to the next
Goto(t, pc) == th' = [th EXCEPT ![t].pc = pc]

\* the call of t returns or raises; its locals are dropped
Leave(r, res) == [r EXCEPT !.pc = "done", !.result = res, !.lproc = NoProc, !.fd = FALSE]

\* no reference to the Popen object is left: its pipes are closed in the host
FdClosed == proc = NoProc /\ \A u \in Threads : th[u].lproc = NoProc

\* the caller t leaves close_transport; the pipes go with the last reference
\* to the Popen object
LeaveClose(t, res) ==
    /\ th' = [th EXCEPT ![t] = Leave(@, res)]
    /\ IF th[t].lproc # NoProc /\ proc = NoProc /\ th[Other(t)].lproc = NoProc
       THEN /\ outbuf' = <<>>
            /\ outNext' = 0
            /\ outOpen' = FALSE
            /\ inOpen' = FALSE
            /\ inFree' = 0
       ELSE UNCHANGED pipes

\* what close_transport gives back to the call of t that ran it: line 420
\* follows in read_transport
Closed(t) == IF th[t].op = "read" THEN "TransportClosedError" ELSE "ok"

race_call ==
    /\ ~hostExited
    /\ \E t \in Threads, o \in {"close", "read", "write"}, data \in Datas :
         /\ th[t].pc = "idle"
         /\ th' = [th EXCEPT ![t] = [@ EXCEPT !.op = o,
                                              !.pc = IF o = "close" THEN "close_test"
                                                     ELSE IF o = "read" THEN "read_test"
                                                     ELSE "write_test",
                                              !.data = IF o = "write" THEN data ELSE <<>>]]
    /\ RaceFrame
    /\ UNCHANGED <<proc, child, desc, pipes>>

\* line 385
race_close_test ==
    /\ ~hostExited
    /\ \E t \in Threads :
         /\ th[t].pc = "close_test"
         /\ IF proc # NoProc
            THEN Goto(t, "close_capture")
            ELSE th' = [th EXCEPT ![t] = Leave(@, Closed(t))]
    /\ RaceFrame
    /\ UNCHANGED <<proc, child, desc, pipes>>

\* line 386
race_close_capture ==
    /\ ~hostExited
    /\ \E t \in Threads :
         /\ th[t].pc = "close_capture"
         /\ th' = [th EXCEPT ![t] = [@ EXCEPT !.pc = "close_getpgid", !.lproc = proc]]
    /\ RaceFrame
    /\ UNCHANGED <<proc, child, desc, pipes>>

\* line 387, on the local proc
race_close_getpgid ==
    /\ ~hostExited
    /\ \E t \in Threads :
         /\ th[t].pc = "close_getpgid"
         /\ LET m == close_getpgid([RaceMachine(t) EXCEPT !.proc = th[t].lproc])
            IN  IF th[t].lproc = NoProc
                THEN /\ th' = [th EXCEPT ![t] = [Leave(@, m.err) EXCEPT !.deref = TRUE]]
                     /\ UNCHANGED pipes
                ELSE IF m.err # "none"
                THEN LeaveClose(t, m.err)
                ELSE /\ th' = [th EXCEPT ![t] = [@ EXCEPT !.pc = "close_clear",
                                                          !.pgrp = m.pgrp]]
                     /\ UNCHANGED pipes
    /\ RaceFrame
    /\ UNCHANGED <<proc, child, desc>>

\* line 388
race_close_clear ==
    /\ ~hostExited
    /\ \E t \in Threads :
         /\ th[t].pc = "close_clear"
         /\ Goto(t, "close_terminate")
    /\ proc' = NoProc
    /\ RaceFrame
    /\ UNCHANGED <<child, desc, pipes>>

\* line 389; the signal is sent unless the poll finds the child gone
race_close_terminate ==
    /\ ~hostExited
    /\ \E t \in Threads :
         /\ th[t].pc = "close_terminate"
         /\ th' = [th EXCEPT ![t] = [@ EXCEPT !.pc = "close_kill",
                     !.sig = IF Polled(child) = "running" THEN @ + 1 ELSE @]]
         /\ child' = close_terminate(RaceMachine(t)).child
    /\ RaceFrame
    /\ UNCHANGED <<proc, desc, pipes>>

\* line 390
race_close_kill ==
    /\ ~hostExited
    /\ \E t \in Threads :
         /\ th[t].pc = "close_kill"
         /\ th' = [th EXCEPT ![t] = [@ EXCEPT !.pc = "close_wait",
                     !.sig = IF Polled(child) = "running" THEN @ + 1 ELSE @]]
         /\ child' = close_kill(RaceMachine(t)).child
    /\ RaceFrame
    /\ UNCHANGED <<proc, desc, pipes>>

\* line 391; wait blocks while the child runs
race_close_wait ==
    /\ ~hostExited
    /\ child # "running"
    /\ \E t \in Threads :
         /\ th[t].pc = "close_wait"
         /\ Goto(t, "close_killpg")
         /\ child' = close_wait(RaceMachine(t)).child
    /\ RaceFrame
    /\ UNCHANGED <<proc, desc, pipes>>

\* line 392
race_close_killpg ==
    /\ ~hostExited
    /\ \E t \in Threads :
         /\ th[t].pc = "close_killpg"
         /\ LET m == close_killpg(RaceMachine(t))
            IN  /\ desc' = m.desc
                /\ LeaveClose(t, IF m.err # "none" THEN m.err ELSE Closed(t))
    /\ RaceFrame
    /\ UNCHANGED <<proc, child>>

\* lines 406-407 and 429-430
race_test ==
    /\ ~hostExited
    /\ \E t \in Threads :
         /\ th[t].pc \in {"read_test", "write_test"}
         /\ IF proc = NoProc
            THEN th' = [th EXCEPT ![t] = Leave(@, "TransportClosedError")]
            ELSE Goto(t, IF th[t].pc = "read_test" THEN "read_fd" ELSE "write_fd")
    /\ RaceFrame
    /\ UNCHANGED <<proc, child, desc, pipes>>

\* lines 409 and 432: self._proc.stdout.fileno(), self._proc.stdin.fileno();
\* on None the attribute access raises.  Then line 436 for write_transport.
race_fd ==
    /\ ~hostExited
    /\ \E t \in Threads :
         /\ th[t].pc \in {"read_fd", "write_fd"}
         /\ th' = [th EXCEPT ![t] =
                     IF proc = NoProc
                     THEN [Leave(@, "AttributeError") EXCEPT !.deref = TRUE]
                     ELSE IF th[t].pc = "write_fd" /\ th[t].data = <<>>
                     THEN Leave(@, "ok")
                     ELSE [@ EXCEPT !.fd = TRUE,
                                    !.pc = IF th[t].pc = "read_fd" THEN "read_os"
                                           ELSE "write_os"]]
    /\ RaceFrame
    /\ UNCHANGED <<proc, child, desc, pipes>>

\* lines 413-419, end_time None: select and os.read on the descriptor taken
\* at line 409; a closed descriptor makes select raise
race_read_os ==
    /\ ~hostExited
    /\ \E t \in Threads :
         /\ th[t].pc = "read_os"
         /\ IF FdClosed
            THEN /\ th' = [th EXCEPT ![t] = [Leave(@, "OSError") EXCEPT !.stale = TRUE]]
                 /\ UNCHANGED outbuf
            ELSE /\ Readable
                 /\ IF outbuf # <<>>
                    THEN /\ th' = [th EXCEPT ![t] =
                                     [Leave(@, "ok") EXCEPT !.stale = (proc = NoProc)]]
                         /\ outbuf' = Slice(outbuf, 1)
                    ELSE /\ th' = [th EXCEPT ![t] =
                                     [@ EXCEPT !.pc = "close_test", !.fd = FALSE,
                                               !.stale = (proc = NoProc)]]
                         /\ UNCHANGED outbuf
    /\ RaceFrame
    /\ UNCHANGED <<proc, child, desc, outNext, outOpen, inOpen, inFree>>

\* lines 437-447, end_time None
race_write_os ==
    /\ ~hostExited
    /\ \E t \in Threads :
         /\ th[t].pc = "write_os"
         /\ IF FdClosed
            THEN /\ th' = [th EXCEPT ![t] = [Leave(@, "OSError") EXCEPT !.stale = TRUE]]
                 /\ UNCHANGED inFree
            ELSE /\ Writable
                 /\ IF ~inOpen
                    THEN /\ th' = [th EXCEPT ![t] =
                                     [Leave(@, "AttributeError") EXCEPT
                                        !.stale = (proc = NoProc)]]
                         /\ UNCHANGED inFree
                    ELSE LET num_written == Min(Len(th[t].data), inFree)
                             rest == Unsent(th[t].data, num_written)
                         IN  /\ th' = [th EXCEPT ![t] =
                                         IF rest = <<>>
                                         THEN [Leave(@, "ok") EXCEPT
                                                 !.stale = (proc = NoProc)]
                                         ELSE [@ EXCEPT !.data = rest,
                                                        !.stale = @ \/ proc = NoProc]]
                             /\ inFree' = inFree - num_written
    /\ RaceFrame
    /\ UNCHANGED <<proc, child, desc, outbuf, outNext, outOpen, inOpen>>

NextRace ==
    \/ race_call
    \/ race_close_test
    \/ race_close_capture
    \/ race_close_getpgid
    \/ race_close_clear
    \/ race_close_terminate
    \/ race_close_kill
    \/ race_close_wait
    \/ race_close_killpg
    \/ race_test
    \/ race_fd
    \/ race_read_os
    \/ race_write_os
    \/ ChildExit
    \/ ChildFork
    \/ DescendantExit
    \/ PeerWrite
    \/ PeerCloseStdout
    \/ PeerCloseStdin
    \/ PeerRead

SpecRace == InitRace /\ [][NextRace]_vars

\* ---- properties --------------------------------------------------------------
InLog(r, e) == \E i \in 1..Len(r.log) : r.log[i] = e

Count(log, es) == Cardinality({i \in 1..Len(log) : log[i] \in es})

SignalSteps == {"terminate", "kill", "killpg"}

\* the call o has returned or raised
Returned(o) == call.op = o /\ call.pc = "idle"

\* C1: after the host process has exited normally (its exit callbacks have
\* run), no child launched by any open_transport call is still running.
C1_NoChildOutlivesHost ==
    hostExited => child # "running" /\ orphans = 0

\* C2: close_transport never raises: every close_transport call returns
\* normally, also when the child has exited on its own or when its process
\* group has no member left when the group is signalled.
C2_CloseNeverRaises ==
    Returned("close") => call.result = "ok"

\* C3: a close_transport that finds the process handle none returns without
\* error, sends no signal and changes neither the handle nor any process or
\* pipe.
C3_CloseOnNoneIsNoOp ==
    [][(proc = NoProc /\ close_transport)
       => /\ call'.result = "ok"
          /\ Count(call'.log, SignalSteps \cup {"getpgid"}) = 0
          /\ UNCHANGED <<proc, child, orphans, desc, pipes, atexitN>>]_vars

\* a close_transport after a completed teardown returned normally and
\* signalled nothing
C3_Witness ==
    /\ Returned("close") /\ call.result = "ok" /\ call.log = <<>>
    /\ nspawn >= 1 /\ child = "reaped" /\ proc = NoProc

\* C4: once a read_transport or write_transport has raised
\* TransportClosedError, every later read_transport or write_transport (no
\* open_transport call in between) raises TransportClosedError at once, with
\* no readiness wait, read or write.
C4_ClosedIsTerminal ==
    [][tceSeen # "no"
       => /\ ~read_transport_os
          /\ ~write_transport_os
          /\ (read_transport \/ write_transport)
             => /\ call'.pc = "idle"
                /\ call'.result = "TransportClosedError"
                /\ call'.log = <<>>
                /\ UNCHANGED pipes]_vars

\* a write_transport raised TransportClosedError on a session that an
\* earlier read_transport had found closed by the peer
C4_Witness ==
    /\ tceSeen = "peer"
    /\ Returned("write") /\ call.result = "TransportClosedError" /\ call.log = <<>>
    /\ call.data0 # <<>>

\* C5: with the process handle none, read_transport and write_transport raise
\* TransportClosedError before any deadline, wait or pipe access, and change
\* nothing of the session.
C5_NoneFailsFast ==
    [][(proc = NoProc /\ (read_transport \/ write_transport))
       => /\ call'.pc = "idle"
          /\ call'.result = "TransportClosedError"
          /\ call'.log = <<>>
          /\ call'.end_time = NoDeadline
          /\ UNCHANGED <<proc, nspawn, child, orphans, desc, pipes, atexitN, now>>]_vars

\* a read_transport after close_transport raised TransportClosedError, the
\* first time this session did
C5_Witness ==
    /\ Returned("read") /\ call.result = "TransportClosedError" /\ call.log = <<>>
    /\ proc = NoProc /\ nspawn >= 1 /\ tceSeen = "check"

\* C6: a read_transport whose os.read returned no byte or hit a broken pipe
\* has torn the session down (handle none, child reaped) and raises
\* TransportClosedError, never another error.
C6_EmptyReadClosesThenRaises ==
    (Returned("read") /\ (InLog(call, "read_eof") \/ InLog(call, "BrokenPipeError")))
    => /\ call.result = "TransportClosedError"
       /\ proc = NoProc
       /\ child = "reaped"

\* C7: a write_transport whose os.write hit a broken pipe raises
\* TransportClosedError and has torn the session down (handle none).
C7_BrokenWriteClosesThenRaises ==
    (Returned("write") /\ InLog(call, "BrokenPipeError"))
    => /\ call.result = "TransportClosedError"
       /\ proc = NoProc

\* C8: an open_transport that failed in the spawn or after it leaves the
\* process handle none and no child of that call running.
C8_FailedOpenLeavesNothing ==
    (Returned("open")
       /\ (call.result = "OSError" \/ (InLog(call, "Popen") /\ call.result # "ok")))
    => /\ proc = NoProc
       /\ InLog(call, "Popen") => child # "running"

\* C9: the chunks the pipe accepted during a write_transport, in order,
\* followed by the bytes still unsent, are the data given; when the call
\* returns normally the accepted chunks are exactly the data.
C9_WriteDeliversData ==
    call.op = "write"
    => /\ call.sent \o call.data = call.data0
       /\ (call.pc = "idle" /\ call.result = "ok") => call.sent = call.data0

\* a write_transport of at least two bytes returned normally after more than
\* one partial write
C9_Witness ==
    /\ Returned("write") /\ call.result = "ok"
    /\ Len(call.data0) >= 2
    /\ Count(call.log, {"write"}) >= 2

\* C10: a read_transport that returns normally made one readiness wait and
\* one os.read, and returns the first min(n, available) bytes of the peer's
\* pending output, at least one and at most n, which leave the pipe.
C10_ReadIsOneAttempt ==
    [][(read_transport_os /\ call'.result = "ok")
       => /\ call'.pc = "idle"
          /\ call'.log = <<"deadline", "await", "read">>
          /\ Len(call'.to_return) = Min(call.n, Len(outbuf))
          /\ Len(call'.to_return) >= 1
          /\ Len(call'.to_return) <= call.n
          /\ outbuf = call'.to_return \o outbuf']_vars

\* a read_transport asked for two bytes and returned the single byte pending
C10_Witness ==
    /\ Returned("read") /\ call.result = "ok"
    /\ call.n = 2 /\ Len(call.to_return) = 1

\* what the select of the waiting call looks at
Ready == IF call.pc = "read_await" THEN Readable ELSE Writable

C12_TimeoutKeepsSession ==
    [][((read_transport_os \/ write_transport_os) /\ call'.result = "IoTimeoutError")
       => /\ proc' # NoProc
          /\ Count(call'.log, SignalSteps \cup {"getpgid", "clear", "read", "read_eof"}) = 0
          /\ UNCHANGED <<proc, child, orphans, desc, pipes, atexitN, tceSeen>>]_vars

\* a read_transport timed out on a running child with its pipes open, and the
\* handle is still set
C12_Witness ==
    /\ Returned("read") /\ call.result = "IoTimeoutError"
    /\ proc # NoProc /\ child = "running" /\ outOpen /\ inOpen

\* C13: a write_transport that enters a readiness wait with its deadline
\* reached (budget 0) and bytes still unsent, after an earlier partial write,
\* raises IoTimeoutError and writes nothing more, also when the pipe is
\* writable.
C13_NoWriteAfterDeadline ==
    [][(write_transport_os /\ call.timeout_sec = 0 /\ call.sent # <<>> /\ inOpen)
       => /\ call'.result = "IoTimeoutError"
          /\ call'.sent = call.sent
          /\ UNCHANGED inFree]_vars

\* C14: within one write_transport the deadline is set once, at the start,
\* and every readiness wait is given the budget max(0, deadline - now): from
\* one turn of the loop to the next the deadline is the same and the budget
\* does not grow.  (A step that changes call and leaves it in "write_await"
\* is a step of write_transport entering a wait.)
C14_OneDeadlinePerWrite ==
    [][(call' # call /\ call'.pc = "write_await")
       => /\ call'.timeout_sec =
                 IF call'.end_time = NoDeadline THEN NoDeadline
                 ELSE Max(0, call'.end_time - now')
          /\ call.pc = "write_await"
             => /\ call'.end_time = call.end_time
                /\ call'.timeout_sec <= call.timeout_sec]_vars

\* the second readiness wait of a write_transport got a smaller budget than
\* the caller's timeout
C14_Witness ==
    /\ call.pc = "write_await" /\ call.sent # <<>>
    /\ call.end_time = MaxTimeout /\ call.timeout_sec < MaxTimeout

\* C15: the process handle is none or names the newest child, launched by
\* this Handler and not yet signalled or reaped by a teardown; in every call
\* the handle is cleared before the first signal step, and it is none once a
\* call has run a teardown, whichever call it was (close_transport,
\* read_transport, the exit callbacks).
C15_HandleIsNoneOrLive ==
    /\ proc # NoProc => proc = nspawn /\ child \in {"running", "zombie"}
    /\ \A i \in 1..Len(call.log) :
         call.log[i] \in SignalSteps \cup {"wait"}
         => \E j \in 1..(i - 1) : call.log[j] = "clear"
    /\ (call.pc = "idle" /\ Count(call.log, SignalSteps \cup {"wait"}) > 0)
       => proc = NoProc

\* a read_transport that met the end of the output ran the teardown to its
\* end and left the handle none
C15_Witness ==
    /\ Returned("read") /\ call.result = "TransportClosedError"
    /\ InLog(call, "killpg") /\ proc = NoProc /\ child = "reaped"

\* the place of the first e in log, 0 if there is none
Pos(log, e) ==
    IF \E i \in 1..Len(log) : log[i] = e
    THEN CHOOSE i \in 1..Len(log) : log[i] = e /\ \A j \in 1..(i - 1) : log[j] # e
    ELSE 0

\* a came, and came before b
Before(log, a, b) == Pos(log, a) # 0 /\ Pos(log, a) < Pos(log, b)

\* C16: a call that tears a live session down clears the handle, then writes
\* the diagnostic buffer (DBG build), then sends terminate, then kill, then
\* waits for the child, and signals the process group last.
C16_TeardownOrder ==
    InLog(call, "clear")
    => /\ dbg => Before(call.log, "clear", "flush") /\ Before(call.log, "flush", "terminate")
       /\ Before(call.log, "clear", "terminate")
       /\ Before(call.log, "terminate", "kill")
       /\ Before(call.log, "kill", "wait")
       /\ InLog(call, "killpg") => Before(call.log, "wait", "killpg")

\* C17: the group close_transport looks up for a live handle is the child's
\* own group, whose id is the child's pid and not the host's group; the
\* host's group is never signalled; and once a call has signalled the child's
\* group, neither the child nor a descendant in that group is alive.
C17_OwnGroupIsKilled ==
    /\ proc # NoProc
       => /\ close_getpgid(Machine(<<>>)).pgrp = proc
          /\ close_getpgid(Machine(<<>>)).pgrp # HostPgrp
    /\ ~InLog(call, "killpg_host")
    /\ (call.pc = "idle" /\ InLog(call, "killpg")) => child = "reaped" /\ ~desc

\* a close_transport whose group signal found a member, a descendant of the
\* reaped child, returned normally
C17_Witness ==
    /\ Returned("close") /\ call.result = "ok" /\ InLog(call, "killpg")
    /\ child = "reaped" /\ ~desc /\ proc = NoProc

\* C18: with two callers interleaved statement by statement, no call uses the
\* handle after it was cleared (no attribute access on None), no call waits,
\* reads or writes on the pipes of a session whose handle was cleared, and
\* at most one of the two calls sends signals.
C18_RaceSafe ==
    /\ \A t \in Threads : ~th[t].deref /\ ~th[t].stale
    /\ ~(th[1].sig > 0 /\ th[2].sig > 0)

\* C19: in a DBG build the diagnostic buffer is written to its file by the
\* call that tears a live session down, once, and by no other call: not by a
\* close_transport that finds the handle none, not by the exit callbacks that
\* find it none, not by a read_transport or write_transport that tears
\* nothing down.
C19_FlushOncePerSession ==
    [][dbg
       => /\ close_transport
             => Count(call'.log, {"flush"}) = IF proc # NoProc THEN 1 ELSE 0
          /\ host_exit
             => Count(call'.log, {"flush"}) = IF proc # NoProc /\ atexitN > 0 THEN 1 ELSE 0
          /\ read_transport_os
             => Count(call'.log, {"flush"}) = Count(call'.log, {"clear"})
          /\ (read_transport \/ write_transport \/ write_transport_os)
             => Count(call'.log, {"flush"}) = 0]_vars

\* C20: an open_transport whose options have no etiss_script raises before
\* anything is launched: no child, no exit callback, the handle and the
\* pipes as before.
C20_NoScriptNoLaunch ==
    [][(open_transport /\ ~call'.etiss_script)
       => /\ call'.result = "AssertionError"
          /\ call'.log = <<>>
          /\ UNCHANGED <<proc, nspawn, child, orphans, desc, pipes, atexitN>>]_vars

\* an open_transport without etiss_script failed on a Handler whose session
\* is open: the handle still names the running child
C20_Witness ==
    /\ Returned("open") /\ ~call.etiss_script /\ call.result = "AssertionError"
    /\ proc # NoProc /\ proc = nspawn /\ child = "running" /\ atexitN = 1

\* C21: every turn of the loop of write_transport either leaves fewer unsent
\* bytes or ends the call with an error, so that no call makes more
\* successful writes than it had bytes to send, and a call with a finite
\* timeout ends; a call with empty data on a live session returns at once,
\* with no wait and no write.  (A step that changes call from "idle" to a
\* write is the step of lines 427-436.)
C21_WriteMakesProgress ==
    /\ [][
         /\ write_transport_os
            => \/ /\ call'.pc = "idle"
                  /\ call'.result \in {"IoTimeoutError", "AttributeError"}
                  /\ call'.data = call.data
               \/ /\ Len(call'.data) < Len(call.data)
                  /\ Count(call'.log, {"write"}) = Count(call.log, {"write"}) + 1
                  /\ (call'.pc = "idle") <=> (call'.data = <<>>)
                  /\ (call'.pc = "idle") => (call'.result = "ok")
         /\ (call'.op = "write")
            => (Count(call'.log, {"write"}) + Len(call'.data) <= Len(call'.data0))
         /\ (call.pc = "idle" /\ call' # call /\ call'.op = "write"
               /\ call'.data0 = <<>> /\ proc # NoProc)
            => /\ call'.pc = "idle"
               /\ call'.result = "ok"
               /\ Count(call'.log, {"await", "write"}) = 0
               /\ UNCHANGED <<proc, child, desc, pipes, now>>
       ]_vars
    /\ (call.pc = "write_await" /\ call.end_time # NoDeadline) ~> (call.pc = "idle")

\* a write of MaxLen bytes through a pipe of PipeCap bytes has ended well after
\* one successful write per turn
C21_Witness ==
    /\ Returned("write")
    /\ call.result = "ok"
    /\ call.end_time = NoDeadline
    /\ Len(call.data0) = MaxLen
    /\ call.sent = call.data0
    /\ Count(call.log, {"write"}) = MaxLen

\* the last call ran close_transport (lines 385-392, directly or from line
\* 419) and a step after line 388 raised
FailedAfterClear ==
    /\ call.pc = "idle"
    /\ call.op \in {"close", "read"}
    /\ call.result = "ProcessLookupError"
    /\ InLog(call, "clear")

\* C22: when a step of close_transport fails after the handle was cleared, the
\* handle is none all the same; the next close_transport does nothing, the
\* next read_transport or write_transport raises TransportClosedError with
\* no effect; and no call that signalled the child ends with the handle set.
C22_FailedTeardownStillClears ==
    [][
        /\ FailedAfterClear' => proc' = NoProc
        /\ (FailedAfterClear /\ close_transport)
           => /\ call'.result = "ok"
              /\ call'.log = <<>>
              /\ UNCHANGED <<proc, child, orphans, desc, pipes, atexitN>>
        /\ (FailedAfterClear /\ call' # call /\ call'.op \in {"read", "write"})
           => /\ call'.pc = "idle"
              /\ call'.result = "TransportClosedError"
              /\ call'.log = <<>>
              /\ UNCHANGED <<proc, child, orphans, desc, pipes, atexitN>>
        /\ (call'.pc = "idle" /\ Count(call'.log, SignalSteps) > 0) => proc' = NoProc
      ]_vars

\* close_transport raised at line 392, the group of the reaped child being
\* empty, and the handle is none
C22_Witness ==
    /\ FailedAfterClear
    /\ call.op = "close"
    /\ call.log[Len(call.log)] = "killpg"
    /\ InLog(call, "wait")
    /\ child = "reaped"
    /\ ~desc
    /\ proc = NoProc

====
